---- MODULE Spec2Model ----
(***************************************************************************)
(* State-machine model of the stream.new front-end components:             *)
(*   - VideoClipper (src/components/video-clipper.tsx): start/end markers, *)
(*     the playhead effect, the trimmer's 'updated' listener, createClip   *)
(*     and the DOM listeners the component registers;                      *)
(*   - Playback page (src/unnamed/part_000) with its VideoPlayer           *)
(*     (src/components/video-player.tsx): poster probe, onLoaded/onError,  *)
(*     copyUrl and the report toggle.                                      *)
(*                                                                         *)
(* Times are integers counted in ticks, TicksPerSecond ticks to a second,  *)
(* so that positions between whole seconds exist and Math.round is a real  *)
(* conversion.  An assignment to video.currentTime is taken to set the     *)
(* position to exactly the assigned value.                                 *)
(*                                                                         *)
(* React's scheduling is modelled by what it guarantees: a state update    *)
(* with an unchanged value renders nothing; the passive effect of a render *)
(* runs later, as a step of its own, and at the latest before the next     *)
(* render is committed; a state update on an unmounted component changes   *)
(* nothing.  An event handler may run while an effect is still pending.    *)
(*                                                                         *)
(* Specifications:                                                         *)
(*   Spec           the clip selector and createClip, times at whole       *)
(*                  seconds;                                               *)
(*   SpecMarkers    the clip selector alone, times at every tick;          *)
(*   SpecListeners  the DOM listeners over the media lifecycle;            *)
(*   SpecPlayback   the Playback page.                                     *)
(***************************************************************************)
EXTENDS Integers, Sequences, FiniteSets

\* ---------------------------------------------------------------- bounds
TicksPerSecond == 2
MaxPos == 3
MaxPosts == 2
MaxListeners == 3
MaxProbes == 2
MaxTimers == 2

\* ------------------------------------------------------------- constants
Null == -1
Positions == 0..MaxPos
WholePositions == {p \in Positions : p % TicksPerSecond = 0}
PlaybackIds == {"abc", "def"}
ClipIds == {"xyz"}
Undefined == "undefined"
NoError == ""
ClipErrorText == "Error creating this clip"
PlaybackErrorText == "This video does not exist"
Durations == {0, MaxPos - 1, MaxPos}
ImageSizes == {0, 1, 2}

VARIABLES
  \* VideoClipper: component state, refs and the video element
  mounted, playbackId, startTime, endTime, prevStartTime, prevEndTime,
  duration, videoTime, effectPending, metadataPending,
  \* VideoClipper: DOM listeners attached by the component
  errorListeners, metadataListeners, updatedListeners,
  \* VideoClipper: createClip
  isCreatingClip, errorMessage, posts, postBody, pendingReqs, lastResponse,
  route, navCount, invocations, lateUpdate, lateNavigation, rejections,
  \* VideoClipper: what the last marker event was and what it wrote
  lastEvent, wroteStart, wroteEnd,
  \* Playback page
  pbMounted, isLoaded, pbErrorMessage, isCopied, openReport,
  copyTimeoutRef, timers, timersMade, lateTimerFires, probes, isVertical, errorSeen,
  loads

markerVars == <<startTime, endTime, prevStartTime, prevEndTime, videoTime, effectPending>>
markerGhosts == <<lastEvent, wroteStart, wroteEnd>>
mediaVars == <<playbackId, duration, metadataPending>>
listenerVars == <<errorListeners, metadataListeners, updatedListeners>>
requestVars == <<isCreatingClip, errorMessage, posts, postBody, pendingReqs,
  lastResponse, route, navCount, invocations, lateUpdate, lateNavigation, rejections>>

clipperVars == <<mounted, markerVars, markerGhosts, mediaVars, listenerVars, requestVars>>

playbackVars == <<pbMounted, isLoaded, pbErrorMessage, isCopied, openReport,
  copyTimeoutRef, timers, timersMade, lateTimerFires, probes, isVertical, errorSeen,
  loads>>

vars == <<clipperVars, playbackVars>>

\* ------------------------------------------------------- pure helpers

\* JavaScript's (x || 0) on a number-or-null: null becomes 0, 0 stays 0.
Num(x) == IF x = Null THEN 0 ELSE x

\* Math.round of a time given in ticks, result in ticks: the nearest whole
\* second, a half rounding up.
MathRoundDown(t) == (t \div TicksPerSecond) * TicksPerSecond
MathRound(t) == ((2 * t + TicksPerSecond) \div (2 * TicksPerSecond)) * TicksPerSecond

\* The value a 'Set start' / 'Set end' click stores for a position p.
ClickValue(p) == MathRound(Num(p))

\* The markers <<startTime, endTime>> after a click on 'Set start' / 'Set end'
\* at position p, and after the trimmer's 'updated' event with detail (ds, de).
MarkersAfterSetStartOrdered(s, e, p) ==
  IF e # Null /\ ClickValue(p) > e THEN <<e, ClickValue(p)>> ELSE <<ClickValue(p), e>>
MarkersAfterSetStart(s, e, p) == <<ClickValue(p), e>>
MarkersAfterSetEnd(s, e, p) == <<s, ClickValue(p)>>
MarkersAfterUpdatedValidated(s, e, ds, de) == IF ds > de THEN <<s, e>> ELSE <<ds, de>>
MarkersAfterUpdated(s, e, ds, de) == <<ds, de>>

\* The body of the POST request of createClip.
ClipBodyOrdered(pid, s, e) ==
  [playbackId |-> pid,
   startTime |-> IF s # Null /\ e # Null /\ s > e THEN e ELSE s,
   endTime |-> IF s # Null /\ e # Null /\ s > e THEN s ELSE e]
ClipBody(pid, s, e) == [playbackId |-> pid, startTime |-> s, endTime |-> e]

\* Router.push target of a created clip.
AssetPath(id) == <<"assets", id>>
NoRoute == <<>>

\* The playhead effect: the position it leaves the video at.
PlayheadAfterStale(s, e, ps, pe, t) ==
  LET t1 == IF s # ps THEN Num(ps) ELSE t
  IN  IF e # pe THEN Num(pe) ELSE t1
PlayheadAfter(s, e, ps, pe, t) ==
  LET t1 == IF s # ps THEN Num(s) ELSE t
  IN  IF e # pe THEN Num(e) ELSE t1

NoEvent == [kind |-> "none", p |-> 0, changed |-> FALSE, raced |-> FALSE]
NoResponse == [kind |-> "none", id |-> Undefined, live |-> TRUE, pushed |-> NoRoute]
NewProbe == [state |-> "pending", notified |-> FALSE]
NoBody == [playbackId |-> Undefined, startTime |-> Null, endTime |-> Null]

\* A pending playhead effect runs before React renders the next update.
Flushed ==
  IF effectPending
  THEN [t |-> PlayheadAfter(startTime, endTime, prevStartTime, prevEndTime, videoTime),
        ps |-> startTime, pe |-> endTime]
  ELSE [t |-> videoTime, ps |-> prevStartTime, pe |-> prevEndTime]

\* ------------------------------------------------------------------ Init
InitClipper ==
  /\ mounted = TRUE
  /\ playbackId = "abc"
  /\ startTime = Null /\ endTime = Null
  /\ prevStartTime = Null /\ prevEndTime = Null
  /\ duration = Null
  /\ videoTime = 0
  /\ effectPending = FALSE
  /\ metadataPending = TRUE
  /\ errorListeners = 1 /\ metadataListeners = 1 /\ updatedListeners = 1
  /\ isCreatingClip = FALSE /\ errorMessage = NoError
  /\ posts = 0 /\ postBody = NoBody /\ pendingReqs = {} /\ lastResponse = NoResponse
  /\ route = NoRoute /\ navCount = 0 /\ invocations = 0
  /\ lateUpdate = FALSE /\ lateNavigation = FALSE /\ rejections = 0
  /\ lastEvent = NoEvent /\ wroteStart = Null /\ wroteEnd = Null

InitPlayback ==
  /\ pbMounted = TRUE
  /\ isLoaded = FALSE /\ pbErrorMessage = NoError
  /\ isCopied = FALSE /\ openReport = FALSE
  /\ copyTimeoutRef = Null /\ timers = {} /\ timersMade = 0 /\ lateTimerFires = 0
  /\ probes = <<NewProbe>>
  /\ isVertical = "unset"
  /\ errorSeen = FALSE
  /\ loads = 1

Init == InitClipper /\ InitPlayback

\* ------------------------------------------------- VideoClipper actions

\* React runs a pending passive effect before it renders the next update;
\* again tells whether the render being committed schedules the effect anew.
FlushPlayhead(again) ==
  /\ videoTime' = Flushed.t
  /\ prevStartTime' = Flushed.ps
  /\ prevEndTime' = Flushed.pe
  /\ effectPending' = again

\* setStartTime / setEndTime with the markers m: no render when nothing changed.
WriteMarkers(m) ==
  /\ startTime' = m[1]
  /\ endTime' = m[2]
  /\ IF m = <<startTime, endTime>>
     THEN UNCHANGED <<videoTime, prevStartTime, prevEndTime, effectPending>>
     ELSE FlushPlayhead(TRUE)

SetStartClick ==
  /\ mounted
  /\ WriteMarkers(MarkersAfterSetStart(startTime, endTime, videoTime))
  /\ lastEvent' = [kind |-> "start", p |-> videoTime,
                   changed |-> startTime' # startTime, raced |-> effectPending]
  /\ wroteStart' = ClickValue(videoTime)
  /\ UNCHANGED <<mounted, mediaVars, listenerVars, requestVars, wroteEnd, playbackVars>>

SetEndClick ==
  /\ mounted
  /\ WriteMarkers(MarkersAfterSetEnd(startTime, endTime, videoTime))
  /\ lastEvent' = [kind |-> "end", p |-> videoTime,
                   changed |-> endTime' # endTime, raced |-> effectPending]
  /\ wroteEnd' = ClickValue(videoTime)
  /\ UNCHANGED <<mounted, mediaVars, listenerVars, requestVars, wroteStart, playbackVars>>

\* The trimmer dispatches 'updated' with detail (ds, de); every attached
\* listener of the component runs the same handler.
TrimmerUpdated(ds, de) ==
  /\ mounted
  /\ updatedListeners >= 1
  /\ WriteMarkers(MarkersAfterUpdated(startTime, endTime, ds, de))
  /\ lastEvent' = [kind |-> "updated", p |-> videoTime,
                   changed |-> <<startTime', endTime'>> # <<startTime, endTime>>,
                   raced |-> effectPending]
  /\ wroteStart' = ds
  /\ wroteEnd' = de
  /\ UNCHANGED <<mounted, mediaVars, listenerVars, requestVars, playbackVars>>

\* The playhead effect of the last committed render.
RunPlayheadEffect ==
  /\ mounted
  /\ effectPending
  /\ FlushPlayhead(FALSE)
  /\ UNCHANGED <<mounted, startTime, endTime, markerGhosts, mediaVars, listenerVars,
                 requestVars, playbackVars>>

\* Playback progress or the user scrubbing: the position changes by itself.
PlayheadMoves(t) ==
  /\ mounted
  /\ t # videoTime
  /\ videoTime' = t
  /\ lastEvent' = NoEvent
  /\ UNCHANGED <<mounted, startTime, endTime, prevStartTime, prevEndTime, effectPending,
                 wroteStart, wroteEnd, mediaVars, listenerVars, requestVars, playbackVars>>

\* 'loadedmetadata' on the video element; a changed duration re-runs the
\* effect that attaches the 'updated' listener.
LoadedMetadata(d) ==
  /\ mounted
  /\ metadataPending
  /\ metadataListeners >= 1
  /\ metadataPending' = FALSE
  /\ IF d # 0 /\ d # duration
     THEN /\ updatedListeners < MaxListeners
          /\ duration' = d
          /\ updatedListeners' = updatedListeners + 1
          /\ FlushPlayhead(FALSE)
     ELSE UNCHANGED <<duration, updatedListeners, videoTime, prevStartTime,
                      prevEndTime, effectPending>>
  /\ lastEvent' = NoEvent
  /\ UNCHANGED <<mounted, playbackId, startTime, endTime, errorListeners,
                 metadataListeners, requestVars, wroteStart, wroteEnd, playbackVars>>

\* The playbackId prop changes: the media effect's cleanup runs, then the effect.
ChangePlaybackId(pid) ==
  /\ mounted
  /\ pid # playbackId
  /\ metadataListeners < MaxListeners
  /\ playbackId' = pid
  /\ errorListeners' = (errorListeners - 1) + 1
  /\ metadataListeners' = metadataListeners + 1
  /\ metadataPending' = TRUE
  /\ FlushPlayhead(FALSE)
  /\ lastEvent' = NoEvent
  /\ UNCHANGED <<mounted, startTime, endTime, duration, updatedListeners,
                 requestVars, wroteStart, wroteEnd, playbackVars>>

\* A 'create clip' button that is always rendered.
CanCreateClipAlways == TRUE

\* {isCreatingClip ? <div>Creating clip...</div> : <button onClick={createClip}>}
CanCreateClip == ~isCreatingClip

\* createClip up to its await: the request is issued.
CreateClipClick ==
  /\ mounted
  /\ CanCreateClip
  /\ posts < MaxPosts
  /\ errorMessage' = NoError
  /\ isCreatingClip' = TRUE
  /\ invocations' = invocations + 1
  /\ posts' = posts + 1
  /\ postBody' = ClipBody(playbackId, startTime, endTime)
  /\ pendingReqs' = pendingReqs \cup {posts + 1}
  /\ FlushPlayhead(FALSE)
  /\ UNCHANGED <<mounted, startTime, endTime, markerGhosts, mediaVars,
                 listenerVars, lastResponse, route, navCount, lateUpdate,
                 lateNavigation, rejections, playbackVars>>

\* The response's JSON body parsed: the .then callback runs with its id
\* (undefined when the body carries none, as for an HTTP error with a JSON body).
RespondResolved(r, kind, id) ==
  /\ r \in pendingReqs
  /\ \/ kind = "ok" /\ id \in ClipIds
     \/ kind = "errJson" /\ id = Undefined
  /\ pendingReqs' = pendingReqs \ {r}
  /\ postBody' = NoBody
  /\ lastResponse' = [kind |-> kind, id |-> id, live |-> mounted,
                      pushed |-> AssetPath(id)]
  /\ route' = AssetPath(id)
  /\ navCount' = navCount + 1
  /\ IF mounted
     THEN /\ isCreatingClip' = FALSE
          /\ FlushPlayhead(FALSE)
          /\ UNCHANGED <<lateUpdate, lateNavigation>>
     ELSE /\ lateUpdate' = TRUE
          /\ lateNavigation' = TRUE
          /\ UNCHANGED <<isCreatingClip, videoTime, prevStartTime, prevEndTime,
                         effectPending>>
  /\ UNCHANGED <<mounted, startTime, endTime, markerGhosts, mediaVars,
                 listenerVars, errorMessage, posts, invocations, rejections,
                 playbackVars>>

\* fetch rejects (network) or res.json() rejects (body not JSON): the catch
\* block, which ends by rejecting the promise createClip returned.
RespondRejected(r, kind) ==
  /\ r \in pendingReqs
  /\ kind \in {"network", "badBody"}
  /\ pendingReqs' = pendingReqs \ {r}
  /\ postBody' = NoBody
  /\ lastResponse' = [kind |-> kind, id |-> Undefined, live |-> mounted,
                      pushed |-> NoRoute]
  /\ rejections' = rejections + 1
  /\ IF mounted
     THEN /\ isCreatingClip' = FALSE
          /\ errorMessage' = ClipErrorText
          /\ FlushPlayhead(FALSE)
          /\ UNCHANGED lateUpdate
     ELSE /\ lateUpdate' = TRUE
          /\ UNCHANGED <<isCreatingClip, errorMessage, videoTime, prevStartTime,
                         prevEndTime, effectPending>>
  /\ UNCHANGED <<mounted, startTime, endTime, markerGhosts, mediaVars,
                 listenerVars, posts, route, navCount, invocations, lateNavigation,
                 playbackVars>>

\* Unmount: the only cleanup is the media effect's, which removes 'error'.
Unmount ==
  /\ mounted
  /\ mounted' = FALSE
  /\ errorListeners' = errorListeners - 1
  /\ FlushPlayhead(FALSE)
  /\ lastEvent' = NoEvent
  /\ UNCHANGED <<startTime, endTime, wroteStart, wroteEnd, mediaVars,
                 metadataListeners, updatedListeners, requestVars, playbackVars>>

\* One mounted VideoClipper: the clip selector and createClip, with the video
\* and the trimmer at whole seconds.
Next ==
  \/ SetStartClick
  \/ SetEndClick
  \/ \E ds, de \in WholePositions : TrimmerUpdated(ds, de)
  \/ RunPlayheadEffect
  \/ \E t \in WholePositions : PlayheadMoves(t)
  \/ CreateClipClick
  \/ \E r \in 1..MaxPosts, id \in ClipIds \cup {Undefined}, kind \in {"ok", "errJson"} :
       RespondResolved(r, kind, id)
  \/ \E r \in 1..MaxPosts, kind \in {"network", "badBody"} : RespondRejected(r, kind)
  \/ Unmount

Spec == Init /\ [][Next]_vars

\* The clip selector alone, with the video and the trimmer at every position.
NextMarkers ==
  \/ SetStartClick
  \/ SetEndClick
  \/ \E ds, de \in Positions : TrimmerUpdated(ds, de)
  \/ RunPlayheadEffect
  \/ \E t \in Positions : PlayheadMoves(t)
  \/ Unmount

SpecMarkers == Init /\ [][NextMarkers]_vars

\* The DOM listeners of one VideoClipper over its media lifecycle.
NextListeners ==
  \/ \E d \in Durations : LoadedMetadata(d)
  \/ \E pid \in PlaybackIds : ChangePlaybackId(pid)
  \/ \E ds, de \in WholePositions : TrimmerUpdated(ds, de)
  \/ RunPlayheadEffect
  \/ Unmount

SpecListeners == Init /\ [][NextListeners]_vars

\* ------------------------------------------------- Playback page actions

\* A loader that looks at isLoaded alone.
ShowLoadingIgnoringError == ~isLoaded

\* const showLoading = (!isLoaded && !errorMessage)
ShowLoading == ~isLoaded /\ pbErrorMessage = NoError

\* The probe image of VideoPlayer instance i: the player mounted now is the
\* last one created, unless the report form has replaced it.
PlayerMounted == pbMounted /\ ~openReport

\* setIsVertical((w / h) < 1)
VerticalOf(w, h) == IF w < h THEN "vertical" ELSE "horizontal"

\* The probe image loads with dimensions (w, h): img.onload runs onImageLoad,
\* which calls onLoaded on both of its branches.
PosterImageLoad(i, w, h) ==
  /\ i \in 1..Len(probes)
  /\ probes[i].state = "pending"
  /\ probes' = [probes EXCEPT ![i] =
       [state |-> IF w # 0 /\ h # 0 THEN "sized" ELSE "unsized", notified |-> TRUE]]
  /\ isVertical' = IF w # 0 /\ h # 0 /\ PlayerMounted /\ i = Len(probes)
                   THEN VerticalOf(w, h) ELSE isVertical
  /\ isLoaded' = IF pbMounted THEN TRUE ELSE isLoaded
  /\ UNCHANGED <<pbMounted, pbErrorMessage, isCopied, openReport, copyTimeoutRef,
                 timers, timersMade, lateTimerFires, errorSeen, loads, clipperVars>>

\* The probe image fails to load: the Image has no onerror handler.
PosterImageError(i) ==
  /\ i \in 1..Len(probes)
  /\ probes[i].state = "pending"
  /\ probes' = [probes EXCEPT ![i] = [state |-> "failed", notified |-> FALSE]]
  /\ UNCHANGED <<pbMounted, isLoaded, pbErrorMessage, isCopied, openReport,
                 copyTimeoutRef, timers, timersMade, lateTimerFires, isVertical,
                 errorSeen, loads, clipperVars>>

\* 'error' on the video element of the mounted player: Playback.onError.
VideoError ==
  /\ PlayerMounted
  /\ pbErrorMessage' = PlaybackErrorText
  /\ isLoaded' = FALSE
  /\ errorSeen' = TRUE
  /\ UNCHANGED <<pbMounted, isCopied, openReport, copyTimeoutRef, timers, timersMade,
                 lateTimerFires, probes, isVertical, loads, clipperVars>>

\* 'Report abuse': the report form replaces the player and the actions.
OpenReport ==
  /\ pbMounted
  /\ isLoaded
  /\ ~openReport
  /\ openReport' = TRUE
  /\ isVertical' = "unset"
  /\ UNCHANGED <<pbMounted, isLoaded, pbErrorMessage, isCopied, copyTimeoutRef,
                 timers, timersMade, lateTimerFires, probes, errorSeen, loads, clipperVars>>

\* The report form closes: a new VideoPlayer mounts, with a new media element
\* that loads the playback id, and probes the poster again.
CloseReport ==
  /\ pbMounted
  /\ openReport
  /\ Len(probes) < MaxProbes
  /\ openReport' = FALSE
  /\ probes' = Append(probes, NewProbe)
  /\ loads' = loads + 1
  /\ UNCHANGED <<pbMounted, isLoaded, pbErrorMessage, isCopied, copyTimeoutRef,
                 timers, timersMade, lateTimerFires, isVertical, errorSeen,
                 clipperVars>>

\* copyUrl: a new 5-second timer, its id kept in copyTimeoutRef.
CopyUrl ==
  /\ pbMounted
  /\ isLoaded
  /\ ~openReport
  /\ timersMade < MaxTimers
  /\ isCopied' = TRUE
  /\ timersMade' = timersMade + 1
  /\ timers' = timers \cup {timersMade + 1}
  /\ copyTimeoutRef' = timersMade + 1
  /\ UNCHANGED <<pbMounted, isLoaded, pbErrorMessage, openReport, lateTimerFires,
                 probes, isVertical, errorSeen, loads, clipperVars>>

\* A copy timer expires: setIsCopied(false); copyTimeoutRef.current = null.
CopyTimeoutFires(id) ==
  /\ id \in timers
  /\ timers' = timers \ {id}
  /\ copyTimeoutRef' = Null
  /\ IF pbMounted
     THEN isCopied' = FALSE /\ UNCHANGED lateTimerFires
     ELSE lateTimerFires' = lateTimerFires + 1 /\ UNCHANGED isCopied
  /\ UNCHANGED <<pbMounted, isLoaded, pbErrorMessage, openReport, timersMade,
                 probes, isVertical, errorSeen, loads, clipperVars>>

\* Playback unmounts: the cleanup clears the timer copyTimeoutRef names.
PlaybackUnmount ==
  /\ pbMounted
  /\ pbMounted' = FALSE
  /\ timers' = IF copyTimeoutRef # Null THEN timers \ {copyTimeoutRef} ELSE timers
  /\ UNCHANGED <<isLoaded, pbErrorMessage, isCopied, openReport, copyTimeoutRef,
                 timersMade, lateTimerFires, probes, isVertical, errorSeen,
                 loads, clipperVars>>

NextPlayback ==
  \/ \E i \in 1..MaxProbes, w, h \in ImageSizes : PosterImageLoad(i, w, h)
  \/ \E i \in 1..MaxProbes : PosterImageError(i)
  \/ VideoError
  \/ OpenReport
  \/ CloseReport
  \/ CopyUrl
  \/ \E id \in 1..MaxTimers : CopyTimeoutFires(id)
  \/ PlaybackUnmount

SpecPlayback == Init /\ [][NextPlayback]_vars

\* ================================================================ claims

\* m is the time p rounded to the nearest whole second, a half rounding up.
NearestSecond(m, p) ==
  /\ m % TicksPerSecond = 0
  /\ 2 * m <= 2 * p + TicksPerSecond
  /\ 2 * p + TicksPerSecond < 2 * m + 2 * TicksPerSecond

\* The marker a click of kind k writes.
MarkerOf(k) == IF k = "start" THEN startTime ELSE endTime

\* A step in which a pending playhead effect runs: the refs catch up.
FlushStep ==
  /\ effectPending
  /\ <<prevStartTime', prevEndTime'>> # <<prevStartTime, prevEndTime>>

\* C1 as stated: once a 'Set start' / 'Set end' click (made with no earlier
\* effect outstanding) and its follow-up effect have run, the marker equals the
\* position p the click read and the video's currentTime equals the marker,
\* also when the marker's value did not change.
C1_AsStated ==
  (lastEvent.kind \in {"start", "end"} /\ ~lastEvent.raced /\ ~effectPending) =>
     /\ MarkerOf(lastEvent.kind) = lastEvent.p
     /\ videoTime = MarkerOf(lastEvent.kind)

\* C1 amended: a click at position p stores p rounded to the nearest whole
\* second as its marker; once the follow-up effect has run, the video's
\* currentTime equals the marker if the click changed the marker's value.
C1_SetMarkerRoundsAndSeeks ==
  lastEvent.kind \in {"start", "end"} =>
     /\ NearestSecond(MarkerOf(lastEvent.kind), lastEvent.p)
     /\ (lastEvent.changed /\ ~effectPending) => videoTime = MarkerOf(lastEvent.kind)

\* C1 witness: a click at a position between whole seconds changed the marker
\* and the effect has moved the video onto the marker.
C1_Witness ==
  /\ lastEvent.kind = "start"
  /\ lastEvent.changed
  /\ ~effectPending
  /\ lastEvent.p % TicksPerSecond # 0
  /\ startTime # lastEvent.p
  /\ videoTime = startTime

\* C2: after the trimmer's 'updated' event with detail (startTime, endTime),
\* both markers hold exactly the event's values, whatever they held before.
C2_UpdatedOverwritesBoth ==
  lastEvent.kind = "updated" => (startTime = wroteStart /\ endTime = wroteEnd)

\* C2 witness: an 'updated' event with an inverted range replaced both of two
\* markers that earlier clicks or events had set.
C2_Witness ==
  /\ lastEvent.kind = "updated"
  /\ lastEvent.changed
  /\ startTime > endTime
  /\ prevStartTime # Null /\ prevEndTime # Null
  /\ prevStartTime # startTime /\ prevEndTime # endTime

\* C9 as stated: after any sequence of clicks (also two clicks before the
\* effect of the first has run), once the effects have run the video's
\* currentTime equals the marker written by the last click.
C9_AsStated ==
  (lastEvent.kind \in {"start", "end"} /\ ~effectPending) =>
     videoTime = MarkerOf(lastEvent.kind)

\* C9 amended: a click or event never moves the video itself; the seek is
\* applied by the effect, to the marker value already recorded in component
\* state (the end marker when both changed); and once the effects have run the
\* video's currentTime equals the marker written by the last click whenever
\* that click changed the marker's value.
C9_SeekAfterRecord ==
  /\ [][FlushStep =>
          videoTime' = IF endTime # prevEndTime THEN Num(endTime) ELSE Num(startTime)]_vars
  /\ [][(~effectPending /\ lastEvent'.kind \in {"start", "end", "updated"}) =>
          videoTime' = videoTime]_vars
  /\ []((lastEvent.kind \in {"start", "end"} /\ lastEvent.changed /\ ~effectPending) =>
          videoTime = MarkerOf(lastEvent.kind))

\* C9 witness: 'Set end' was clicked while the effect of an earlier marker
\* change had not run yet; both effects have run and the video is at the end
\* marker, which differs from the start marker.
C9_Witness ==
  /\ lastEvent.kind = "end"
  /\ lastEvent.raced
  /\ lastEvent.changed
  /\ ~effectPending
  /\ startTime # Null /\ startTime # endTime
  /\ videoTime = endTime

\* A step in which createClip issues its request, and one in which a pending
\* request completes.
SubmitStep == invocations' # invocations \/ posts' # posts
CompleteStep == pendingReqs' # pendingReqs /\ posts' = posts

\* C3: both markers always hold the value last written to each, in whatever
\* order they lie, and createClip submits them as they are, also when
\* startTime > endTime.
C3_NoReorderNoReject ==
  /\ [](startTime = wroteStart /\ endTime = wroteEnd)
  /\ [][SubmitStep => (postBody'.startTime = wroteStart /\ postBody'.endTime = wroteEnd)]_vars

\* C3 witness: 'Set start' was clicked at a position after the end marker and
\* a request carrying the inverted range is in flight.
C3_Witness ==
  /\ lastEvent.kind = "start"
  /\ endTime # Null
  /\ startTime > endTime
  /\ pendingReqs # {}
  /\ postBody.startTime = startTime /\ postBody.endTime = endTime

\* C4: one createClip invocation issues exactly one POST whose body is the
\* component's playbackId, startTime and endTime at that moment; a response
\* resolving with an id navigates to /assets/id and, in the mounted component,
\* clears isCreatingClip.
C4_OnePostThenNavigate ==
  /\ [][SubmitStep =>
          /\ invocations' = invocations + 1
          /\ posts' = posts + 1
          /\ postBody' = [playbackId |-> playbackId, startTime |-> startTime,
                          endTime |-> endTime]]_vars
  /\ [][(CompleteStep /\ lastResponse'.kind = "ok") =>
          /\ posts' = posts
          /\ route' = <<"assets", lastResponse'.id>>
          /\ navCount' = navCount + 1
          /\ mounted => ~isCreatingClip']_vars

\* C4 witness: a request with both markers set resolved with id "xyz" and the
\* mounted component went to /assets/xyz with the creating flag cleared.
C4_Witness ==
  /\ mounted
  /\ lastResponse.kind = "ok" /\ lastResponse.id = "xyz" /\ lastResponse.live
  /\ route = <<"assets", "xyz">>
  /\ navCount = 1 /\ posts = 1
  /\ ~isCreatingClip
  /\ startTime # Null /\ endTime # Null

\* C5 as stated: when a clip-creation request fails (the network fails, the
\* body is unreadable, or the endpoint answers with an error status), the
\* mounted component ends with a non-empty error message, no navigation and
\* isCreatingClip reset, and no request is re-issued.
C5_AsStated ==
  (mounted /\ lastResponse.live /\ pendingReqs = {}
     /\ lastResponse.kind \in {"network", "badBody", "errJson"}) =>
     /\ errorMessage # NoError
     /\ lastResponse.pushed = NoRoute
     /\ ~isCreatingClip
     /\ posts = invocations

\* Supporting C5: for the failures that reach the catch block (fetch or
\* res.json() rejecting) the mounted component does end as C5 says, and every
\* submission clears the error message first.
C5_RejectionHandled ==
  /\ []((mounted /\ lastResponse.live /\ pendingReqs = {}
          /\ lastResponse.kind \in {"network", "badBody"}) =>
            /\ errorMessage = ClipErrorText
            /\ lastResponse.pushed = NoRoute
            /\ ~isCreatingClip
            /\ posts = invocations)
  /\ [][SubmitStep => errorMessage' = NoError]_vars

\* C6 as stated: an HTTP error response whose JSON body carries no clip id
\* sets the error message and navigates nowhere.
C6_AsStated ==
  lastResponse.kind = "errJson" =>
     /\ lastResponse.pushed = NoRoute
     /\ (mounted /\ lastResponse.live /\ pendingReqs = {}) => errorMessage # NoError

\* C7 as stated: a request completing after the unmount performs no state
\* update and no navigation, and rejects no promise.
C7_AsStated ==
  /\ ~lateUpdate
  /\ ~lateNavigation
  /\ ~(~lastResponse.live /\ lastResponse.kind \in {"network", "badBody"})

\* C8 as stated: after the unmount no listener of the component is attached,
\* and at no time is more than one 'updated' listener attached to the trimmer.
C8_AsStated ==
  /\ ~mounted => (errorListeners = 0 /\ metadataListeners = 0 /\ updatedListeners = 0)
  /\ updatedListeners <= 1

\* C10 as stated: every poster probe that ends without usable dimensions
\* (zero width or height, or a failed load) has called onLoaded, and the
\* mounted page no longer shows the loader.
C10_AsStated ==
  \A i \in 1..Len(probes) :
     probes[i].state \in {"unsized", "failed"} =>
        /\ probes[i].notified
        /\ pbMounted => ~ShowLoading

\* C11: once onError has run, the page's error message is set and no later
\* event (poster load, copy, copy timer, report open or close, unmount)
\* changes it, so the loader is never shown again; onError starts no load of
\* the media, and the only load ever started after the first is that of the
\* new player the user mounts by closing the report form.
C11_ErrorSticksNoRetry ==
  /\ [](errorSeen => (pbErrorMessage = PlaybackErrorText /\ ~ShowLoading))
  /\ [][pbErrorMessage # NoError => pbErrorMessage' = pbErrorMessage]_vars
  /\ [][(pbErrorMessage' # pbErrorMessage \/ (isLoaded /\ ~isLoaded')) => loads' = loads]_vars
  /\ [][loads' # loads => (loads' = loads + 1 /\ openReport /\ ~openReport')]_vars

\* C11 witness: after the error the poster image loaded (isLoaded is true
\* again), the URL was copied and the report form was opened and closed, and
\* the message is still there.
C11_Witness ==
  /\ pbMounted
  /\ errorSeen
  /\ isLoaded
  /\ isCopied
  /\ loads = 2 /\ ~openReport
  /\ pbErrorMessage = PlaybackErrorText

\* C12 as stated: after the Playback page unmounts no copy timer is left
\* pending, and no timer callback (setIsCopied) runs after the unmount.
C12_AsStated ==
  /\ ~pbMounted => timers = {}
  /\ lateTimerFires = 0

\* C13: at most one clip-creation request is in flight at any time; in the
\* mounted component isCreatingClip is true exactly while a request is
\* pending; createClip is only ever invoked while isCreatingClip is false (the
\* button is rendered only then); and every completion, resolved or rejected,
\* calls setIsCreatingClip(false), which leaves the mounted component's flag
\* false.
C13_OneRequestInFlight ==
  /\ [](Cardinality(pendingReqs) <= 1)
  /\ [](mounted => (isCreatingClip <=> pendingReqs # {}))
  /\ [][SubmitStep => (mounted /\ ~isCreatingClip /\ pendingReqs = {} /\ isCreatingClip')]_vars
  /\ [][CompleteStep => IF mounted THEN ~isCreatingClip' ELSE lateUpdate']_vars

\* C13 witness: the first request has completed, a second one is in flight
\* alone, and the flag is set.
C13_Witness ==
  /\ mounted
  /\ isCreatingClip
  /\ pendingReqs = {2}
  /\ lastResponse.kind \in {"ok", "errJson", "network", "badBody"}

====
